---------------------------- MODULE Spec2Model ----------------------------
(***************************************************************************)
(* ChainWarZ backend: the incremental Strike-log poller (pollOnce with its *)
(* cursor, cooldown and provider reset) and the identity-merging           *)
(* leaderboard (fetchUsersByAddress, buildLeaderboard).                    *)
(*                                                                         *)
(* The poller is the one of src/unnamed/part_000.  Every await of pollOnce *)
(* is a suspension point, and startPolling arms setInterval without any    *)
(* in-flight guard, so several pollOnce invocations of one network can be  *)
(* suspended at the same time: each network has MaxSlots invocation slots. *)
(*                                                                         *)
(* Block numbers are scaled: POLL keeps the shape of the source's          *)
(* configuration (hyperevm has the smaller chunk and the longer lookback)  *)
(* with numbers small enough for heads 0..MaxHead to cover every branch.   *)
(* Times are in milliseconds, as in the source.                            *)
(***************************************************************************)
EXTENDS Integers, Sequences, FiniteSets, TLC

VARIABLES
    cursor,     \* cursor[chain]: last, head, ok, lastError, cooldownUntil
    provider,   \* generation of baseProvider / hyperProvider
    stats,      \* stats[chain]: the Map addr -> [txCount, profile]
    now,        \* Date.now()
    tick,       \* tick[chain][slot]: one pollOnce invocation and where it is suspended
    polls,      \* number of pollOnce invocations started so far
    scanned,    \* history: blocks of chain covered by a successful getLogs
    errors,     \* history: errors caught by safeGetBlockNumber / safeGetLogs
    playerStats,            \* part_001: playerStats[chainKey], rows in Map order
    addressProfileCache,    \* part_001: lowerAddress -> profile
    fidProfileCache,        \* part_001: fid -> profile
    strikes,                \* number of Strike events ingested by pollChain
    lookup,                 \* history: the last answer of the identity collaborator
    board,                  \* the last leaderboard response
    statsMap,               \* server.js: playerStats[chainKey], rows in Map order
    response,               \* server.js: the last /api/leaderboard response
    lastBlockRef,           \* server.js: lastBlockRef.value of each network
    cycle,                  \* server.js: cycle[chain][slot], one pollChain invocation
    cycles,                 \* number of pollChain invocations started so far
    failedFrom,             \* history: `from` of the chunk whose query failed last
    reply,                  \* part_000: the last HTTP response sent
    seed                    \* history: the block a cursor was first seeded at, for
                            \* the networks in its domain

pollVars == <<cursor, provider, stats, now, tick, polls, scanned, errors>>
idVars == <<playerStats, addressProfileCache, fidProfileCache, strikes, lookup, board>>
aggVars == <<statsMap, response>>
cycVars == <<lastBlockRef, cycle, cycles, failedFrom>>
reqVars == <<reply>>
vars == <<pollVars, idVars, aggVars, cycVars, reqVars, seed>>

-----------------------------------------------------------------------------
(* Bounds *)

MaxHead == 4        \* getBlockNumber answers 0..MaxHead
MaxSlots == 2       \* pollOnce invocations of one network in flight together
MaxPolls == 3       \* pollOnce invocations started in a run
MaxClock == 1       \* clock advances in a run
ClockStepMs == 30000 \* granularity of the model's clock
MaxStrikes == 3     \* Strike events ingested in a run of the identity model
MaxLookups == 2     \* requests to the identity collaborator in such a run
MaxCycles == 3      \* pollChain invocations started in a run

Chains == {"base", "hyperevm"}
Slots == 1..MaxSlots
Blocks == 1..MaxHead

Min(a, b) == IF a < b THEN a ELSE b
Max(a, b) == IF a > b THEN a ELSE b

-----------------------------------------------------------------------------
(* Configuration and the remote chain *)

POLL ==
    [ base     |-> [chunk |-> 2, lookback |-> 1],
      hyperevm |-> [chunk |-> 1, lookback |-> 2] ]

backoffMs(chain) == IF chain = "hyperevm" THEN 120000 ELSE 30000

\* e.message of a failed RPC call
Msgs == {"429 Too Many Requests", "timeout"}

isRateLimitError(msg) == msg = "429 Too Many Requests"

\* `getBlockNumber failed: ${msg}` and `getLogs failed: ${msg}`
failedText(call, msg) ==
    IF call = "getBlockNumber"
    THEN (IF isRateLimitError(msg) THEN "getBlockNumber failed: 429 Too Many Requests"
          ELSE "getBlockNumber failed: timeout")
    ELSE (IF isRateLimitError(msg) THEN "getLogs failed: 429 Too Many Requests"
          ELSE "getLogs failed: timeout")

NoTopic == "none"
NoAddr == "none"

\* topic1 values as the RPC returns them: the same player in two letter cases
RawAddrs == {"0xAA", "0xaa", "0xbb"}

toLowerCase(a) == IF a = "0xAA" THEN "0xaa" ELSE a

Keys == {toLowerCase(a) : a \in RawAddrs}

\* The Strike logs of one block, in log order (the chain history is fixed).
ChainLogs(chain, b) ==
    CASE b % 3 = 1 -> <<"0xAA">>
      [] b % 3 = 2 -> IF chain = "base" THEN <<"0xbb", "0xaa">> ELSE <<NoTopic, "0xbb">>
      [] OTHER     -> <<>>

RECURSIVE getLogs(_, _, _)
getLogs(chain, fromBlock, toBlock) ==
    IF fromBlock > toBlock THEN <<>>
    ELSE ChainLogs(chain, fromBlock) \o getLogs(chain, fromBlock + 1, toBlock)

-----------------------------------------------------------------------------
(* State *)

IdleTick ==
    [pc |-> "idle", head |-> 0, from |-> 0, to |-> 0, rest |-> <<>>,
     wait |-> NoAddr, clamped |-> FALSE, nreq |-> 0, counted |-> 0, prov |-> 0]

\* One pollChain invocation of server.js: where it is suspended, its locals
\* head, from and to, and the number of queryFilter calls it has issued
IdleCycle == [pc |-> "idle", head |-> 0, from |-> 0, to |-> 0, chunks |-> 0]

\* An HTTP response: the route, its parameter and the numbers of its body
NoReply == [route |-> "", param |-> "", body |-> << >>]

\* seed[chain] before the first seeding of chain
NoSeed == 0 - 1

\* The program's state after construction
Constructed ==
    /\ cursor = [c \in Chains |->
                   [last |-> 0, head |-> 0, ok |-> TRUE, lastError |-> "",
                    cooldownUntil |-> 0]]
    /\ provider = [c \in Chains |-> 0]
    /\ stats = [c \in Chains |-> << >>]
    /\ now = 0
    /\ tick = [c \in Chains |-> [p \in Slots |-> IdleTick]]
    /\ polls = 0
    /\ scanned = [c \in Chains |-> {}]
    /\ errors = [c \in Chains |-> 0]
    /\ playerStats = [c \in Chains |-> << >>]
    /\ addressProfileCache = << >>
    /\ fidProfileCache = << >>
    /\ strikes = 0
    /\ lookup = [addr |-> NoAddr, candidates |-> 0, asked |-> 0]
    /\ board = << >>
    /\ statsMap = [c \in Chains |-> << >>]
    /\ response = [chain |-> "", bulk |-> "", rows |-> << >>]
    /\ lastBlockRef = [c \in Chains |-> 0]
    /\ cycle = [c \in Chains |-> [p \in Slots |-> IdleCycle]]
    /\ cycles = 0
    /\ failedFrom = [c \in Chains |-> 0]
    /\ reply = NoReply

\* The seeding history is kept for no network ...
Init == Constructed /\ seed = << >>

\* ... or for every network
InitSeed == Constructed /\ seed = [c \in Chains |-> NoSeed]

-----------------------------------------------------------------------------
(* Helpers of pollOnce *)

\* bump(chain, addr) on the Map m of that chain
bumpSet(m, addr) ==
    LET a == toLowerCase(addr)
    IN [k \in (DOMAIN m) \cup {a} |->
          IF k = a THEN [txCount |-> 1, profile |-> IF a \in DOMAIN m THEN m[a].profile ELSE "null"]
          ELSE m[k]]
bump(m, addr) ==
    LET a == toLowerCase(addr)
        row == IF a \in DOMAIN m THEN m[a] ELSE [txCount |-> 0, profile |-> "null"]
    IN [k \in (DOMAIN m) \cup {a} |->
          IF k = a THEN [row EXCEPT !.txCount = row.txCount + 1] ELSE m[k]]

\* The for loop over the logs, run up to its next await (the profile fetch of
\* a row that has none) or to its end.
RECURSIVE LogLoop(_, _, _)
LogLoop(m, logs, n) ==
    IF logs = <<>> THEN [stats |-> m, rest |-> <<>>, wait |-> NoAddr, counted |-> n]
    ELSE LET topic1 == Head(logs) IN
         IF topic1 = NoTopic THEN LogLoop(m, Tail(logs), n)
         ELSE LET m1 == bump(m, topic1)
                  a == toLowerCase(topic1)
              IN IF m1[a].profile = "null"
                 THEN [stats |-> m1, rest |-> Tail(logs), wait |-> a, counted |-> n + 1]
                 ELSE LogLoop(m1, Tail(logs), n + 1)

\* to = Math.min(head, from + cfg.chunk)
ScanTo(head, from, chunk) == Min(head, from + chunk)

\* cursor[chain].last = Math.max(0, head - cfg.lookback)
SeedNoFloor(head, lookback) == head - lookback
SeedCursor(head, lookback) == Max(0, head - lookback)

\* pollOnce after "cursor[chain].last = to": it returns, whatever head is.
AfterScanLoop(chain, t) ==
    IF t.to < t.head
    THEN [t EXCEPT !.pc = "logs", !.from = t.to + 1,
                   !.to = ScanTo(t.head, t.to + 1, POLL[chain].chunk),
                   !.rest = << >>, !.wait = NoAddr, !.counted = 0, !.nreq = @ + 1]
    ELSE IdleTick
AfterScan(chain, t) == IdleTick

\* if (cursor[chain].last > head) cursor[chain].last = Math.max(0, head - 1)
ClampNoFloor(head) == head - 1
ClampCursor(head) == Max(0, head - 1)

resetProviderKeep(chain) == provider
resetProviderAll(chain) == [c \in Chains |-> provider[c] + 1]
resetProvider(chain) == [provider EXCEPT ![chain] = @ + 1]

\* getProvider(chain), the provider a remote call is made on
getProvider(chain) == provider[chain]

-----------------------------------------------------------------------------
(* pollOnce, one action per stretch between two awaits *)

FreeSlot(chain) ==
    LET free == {p \in Slots : tick[chain][p].pc = "idle"}
    IN IF free = {} THEN 0 ELSE CHOOSE p \in free : \A q \in free : p <= q

\* A timer fires (or startPolling makes its immediate call): pollOnce runs up
\* to the await of safeGetBlockNumber, or returns at the cooldown check.
Start(chain) ==
    LET p == FreeSlot(chain) IN
    /\ polls < MaxPolls
    /\ p # 0
    /\ polls' = polls + 1
    /\ IF cursor[chain].cooldownUntil # 0 /\ now < cursor[chain].cooldownUntil
       THEN tick' = tick
       ELSE tick' = [tick EXCEPT ![chain][p] =
                        [IdleTick EXCEPT !.pc = "head", !.prov = getProvider(chain)]]
    /\ UNCHANGED <<cursor, provider, stats, now, scanned, errors, idVars, aggVars, cycVars, reqVars, seed>>

\* safeGetBlockNumber: getBlockNumber throws.
HeadFail(chain, p, msg) ==
    /\ tick[chain][p].pc = "head"
    /\ cursor' = [cursor EXCEPT ![chain].ok = FALSE,
                                ![chain].lastError = failedText("getBlockNumber", msg)]
    /\ provider' = resetProvider(chain)
    /\ errors' = [errors EXCEPT ![chain] = @ + 1]
    /\ tick' = [tick EXCEPT ![chain][p] = IdleTick]
    /\ UNCHANGED <<stats, now, polls, scanned, idVars, aggVars, cycVars, reqVars, seed>>

\* getBlockNumber answers h: pollOnce runs from "cursor[chain].head = head"
\* to the await of safeGetLogs, or to one of its returns.
HeadOk(chain, p, h) ==
    LET cfg == POLL[chain]
        last0 == cursor[chain].last
        clamp == last0 > h
        last1 == IF clamp THEN ClampCursor(h) ELSE last0
        from == last1 + 1
        to == ScanTo(h, from, cfg.chunk)
    IN
    /\ tick[chain][p].pc = "head"
    /\ IF last0 = 0
       THEN /\ cursor' = [cursor EXCEPT ![chain].head = h,
                                        ![chain].last = SeedCursor(h, cfg.lookback)]
            /\ tick' = [tick EXCEPT ![chain][p] = IdleTick]
       ELSE /\ cursor' = [cursor EXCEPT ![chain].head = h, ![chain].last = last1]
            /\ IF from > h
               THEN /\ tick' = [tick EXCEPT ![chain][p] = IdleTick]
               ELSE /\ tick' = [tick EXCEPT ![chain][p] =
                                  [IdleTick EXCEPT !.pc = "logs", !.head = h,
                                       !.from = from, !.to = to,
                                       !.clamped = clamp, !.nreq = 1,
                                       !.prov = getProvider(chain)]]
    /\ seed' = IF last0 = 0 /\ chain \in DOMAIN seed /\ seed[chain] = NoSeed
               THEN [seed EXCEPT ![chain] = SeedCursor(h, cfg.lookback)]
               ELSE seed
    /\ UNCHANGED <<provider, stats, now, polls, scanned, errors, idVars, aggVars, cycVars, reqVars>>

\* safeGetLogs: getLogs throws an error with message msg.
LogsFail(chain, p, msg) ==
    /\ tick[chain][p].pc = "logs"
    /\ cursor' = [cursor EXCEPT
                    ![chain].ok = FALSE,
                    ![chain].lastError = failedText("getLogs", msg),
                    ![chain].cooldownUntil =
                        IF isRateLimitError(msg) THEN now + backoffMs(chain) ELSE @]
    /\ provider' = resetProvider(chain)
    /\ errors' = [errors EXCEPT ![chain] = @ + 1]
    /\ tick' = [tick EXCEPT ![chain][p] = IdleTick]
    /\ UNCHANGED <<stats, now, polls, scanned, idVars, aggVars, cycVars, reqVars, seed>>

\* The for loop has run to r: either it awaits a profile, or it is over and
\* pollOnce assigns the cursor.
Resume(chain, p, r, cur) ==
    LET t == tick[chain][p] IN
    /\ stats' = [stats EXCEPT ![chain] = r.stats]
    /\ IF r.wait = NoAddr
       THEN /\ cursor' = [cur EXCEPT ![chain].last = t.to]
            /\ tick' = [tick EXCEPT ![chain][p] = AfterScan(chain, t)]
       ELSE /\ cursor' = cur
            /\ tick' = [tick EXCEPT ![chain][p] =
                          [t EXCEPT !.pc = "profile", !.rest = r.rest,
                                    !.wait = r.wait, !.counted = r.counted]]

\* getLogs answers with the logs of [from, to].
LogsOk(chain, p) ==
    LET t == tick[chain][p] IN
    /\ t.pc = "logs"
    /\ scanned' = [scanned EXCEPT ![chain] = @ \cup (t.from .. t.to)]
    /\ Resume(chain, p, LogLoop(stats[chain], getLogs(chain, t.from, t.to), 0),
              [cursor EXCEPT ![chain].ok = TRUE, ![chain].lastError = ""])
    /\ UNCHANGED <<provider, now, polls, errors, idVars, aggVars, cycVars, reqVars, seed>>

\* fetchProfileByAddress answers (it never throws): the row gets its profile
\* and the loop goes on.
ProfileReturn(chain, p, profile) ==
    LET t == tick[chain][p]
        m == [stats[chain] EXCEPT ![t.wait].profile = profile]
    IN
    /\ t.pc = "profile"
    /\ Resume(chain, p, LogLoop(m, t.rest, t.counted), cursor)
    /\ UNCHANGED <<provider, now, polls, scanned, errors, idVars, aggVars, cycVars, reqVars, seed>>

AdvanceClock ==
    /\ now < MaxClock * ClockStepMs
    /\ now' = now + ClockStepMs
    /\ UNCHANGED <<cursor, provider, stats, tick, polls, scanned, errors, idVars, aggVars, cycVars, reqVars, seed>>

Next ==
    \/ \E chain \in Chains : Start(chain)
    \/ \E chain \in Chains, p \in Slots, msg \in Msgs : HeadFail(chain, p, msg)
    \/ \E chain \in Chains, p \in Slots, h \in 0..MaxHead : HeadOk(chain, p, h)
    \/ \E chain \in Chains, p \in Slots, msg \in Msgs : LogsFail(chain, p, msg)
    \/ \E chain \in Chains, p \in Slots : LogsOk(chain, p)
    \/ \E chain \in Chains, p \in Slots : ProfileReturn(chain, p, "profile")
    \/ AdvanceClock

Spec == Init /\ [][Next]_vars

\* The same poller with the first seed of each cursor recorded
SpecSeed == InitSeed /\ [][Next]_vars

-----------------------------------------------------------------------------
(* The poller when nothing fails: every getBlockNumber and getLogs call
   returns, there is no rate limiting, and the head of each network is the
   same block H >= 1 at every fetch.  startPolling's setInterval keeps
   firing, so the invocations are not counted here. *)

\* setInterval fires
Timer(chain) ==
    LET p == FreeSlot(chain) IN
    /\ p # 0
    /\ IF cursor[chain].cooldownUntil # 0 /\ now < cursor[chain].cooldownUntil
       THEN tick' = tick
       ELSE tick' = [tick EXCEPT ![chain][p] =
                        [IdleTick EXCEPT !.pc = "head", !.prov = getProvider(chain)]]
    /\ UNCHANGED <<cursor, provider, stats, now, polls, scanned, errors,
                   idVars, aggVars, cycVars, reqVars, seed>>

\* getBlockNumber returns the head the network stopped at
StableHead(chain, p, h) ==
    /\ cursor[chain].head \in {0, h}
    /\ HeadOk(chain, p, h)

NextLive ==
    \/ \E chain \in Chains : Timer(chain)
    \/ \E chain \in Chains, p \in Slots, h \in 1..MaxHead : StableHead(chain, p, h)
    \/ \E chain \in Chains, p \in Slots : LogsOk(chain, p)
    \/ \E chain \in Chains, p \in Slots : ProfileReturn(chain, p, "profile")

\* The timers keep firing and every pending call returns
Fairness ==
    \A chain \in Chains :
        /\ WF_vars(Timer(chain))
        /\ \A p \in Slots :
              /\ WF_vars(\E h \in 1..MaxHead : StableHead(chain, p, h))
              /\ WF_vars(LogsOk(chain, p))
              /\ WF_vars(ProfileReturn(chain, p, "profile"))

SpecLive == Init /\ [][NextLive]_vars /\ Fairness

-----------------------------------------------------------------------------
(* The HTTP routes of src/unnamed/part_000, served between the steps of the
   poller.  A response is kept as its route, its parameter and the numbers
   of its body. *)

ResponseLimit == 25     \* .slice(0, 25)

\* Addresses a client may ask a profile for (one of them never struck)
Asked == RawAddrs \cup {"0xcc"}

\* data.txCount of the rows of m, .sort((a, b) => b.txCount - a.txCount)
RECURSIVE SortedCounts(_, _)
SortedCounts(m, keys) ==
    IF keys = {} THEN << >>
    ELSE LET k == CHOOSE k \in keys : \A j \in keys : m[k].txCount >= m[j].txCount
         IN <<m[k].txCount>> \o SortedCounts(m, keys \ {k})

\* GET /api/leaderboard/:chain
GetStatsLeaderboard(param) ==
    LET chain == IF param = "base" THEN "base" ELSE "hyperevm"
        list == SortedCounts(stats[chain], DOMAIN stats[chain])
    IN
    /\ reply' = [route |-> "leaderboard", param |-> param,
                 body |-> SubSeq(list, 1, Min(Len(list), ResponseLimit))]
    /\ UNCHANGED <<pollVars, idVars, aggVars, cycVars, seed>>

\* The ledger after GET /api/profile/:address: stats.base.get(addr) and
\* stats.hyperevm.get(addr) read the rows and create none
statsAfterProfileBump(addr) == [stats EXCEPT !["base"] = bump(@, addr)]
statsAfterProfile(addr) == stats

\* GET /api/profile/:address
GetProfile(address) ==
    LET addr == toLowerCase(address)
        b == IF addr \in DOMAIN stats["base"] THEN stats["base"][addr].txCount ELSE 0
        h == IF addr \in DOMAIN stats["hyperevm"] THEN stats["hyperevm"][addr].txCount ELSE 0
    IN
    /\ reply' = [route |-> "profile", param |-> addr, body |-> <<b, h>>]
    /\ stats' = statsAfterProfile(addr)
    /\ UNCHANGED <<cursor, provider, now, tick, polls, scanned, errors,
                   idVars, aggVars, cycVars, seed>>

\* GET /health
GetHealth ==
    /\ reply' = [route |-> "health", param |-> "",
                 body |-> <<cursor["base"].last, cursor["base"].head,
                            cursor["hyperevm"].last, cursor["hyperevm"].head,
                            Cardinality(DOMAIN stats["base"]),
                            Cardinality(DOMAIN stats["hyperevm"])>>]
    /\ UNCHANGED <<pollVars, idVars, aggVars, cycVars, seed>>

\* Requests served between the steps of the ticks of both networks.  Here a
\* timer fires when the previous tick of its network has returned; ticks that
\* overlap are the matter of Spec and add nothing to what a route does.
NextReq ==
    \/ \E chain \in Chains : FreeSlot(chain) = 1 /\ Start(chain)
    \/ \E chain \in Chains, p \in Slots, msg \in Msgs : HeadFail(chain, p, msg)
    \/ \E chain \in Chains, p \in Slots, h \in 0..MaxHead : HeadOk(chain, p, h)
    \/ \E chain \in Chains, p \in Slots, msg \in Msgs : LogsFail(chain, p, msg)
    \/ \E chain \in Chains, p \in Slots : LogsOk(chain, p)
    \/ \E chain \in Chains, p \in Slots : ProfileReturn(chain, p, "profile")
    \/ \E param \in Chains \cup {"solana"} : GetStatsLeaderboard(param)
    \/ \E address \in Asked : GetProfile(address)
    \/ GetHealth

SpecReq == Init /\ [][NextReq]_vars

-----------------------------------------------------------------------------
(* The identity resolver and the merged leaderboard of src/unnamed/part_001 *)

NoFid == 0          \* fid: null
LeaderboardLimit == 50

Range(q) == {q[i] : i \in DOMAIN q}

\* Users as the identity collaborator holds them (letter case as it sends it)
NeynarUsers ==
    { [fid |-> 42, custody_address |-> "0xAA", verifications |-> <<"0x01", "0x02">>],
      [fid |-> 7,  custody_address |-> "0xbb", verifications |-> <<"0x02">>] }

\* Players that strike in the identity model
Players == {"0x01", "0x02", "0x03"}

normalizeUserFromNeynar(u) ==
    [fid |-> u.fid,
     custodyAddress |-> toLowerCase(u.custody_address),
     verifications |-> [i \in DOMAIN u.verifications |-> toLowerCase(u.verifications[i])]]

fallbackProfileForAddress(address) ==
    [fid |-> NoFid, custodyAddress |-> NoAddr, verifications |-> << >>]

\* The users the collaborator can name for address a
Matching(a) ==
    {u \in NeynarUsers :
        \/ toLowerCase(u.custody_address) = a
        \/ \E i \in DOMAIN u.verifications : toLowerCase(u.verifications[i]) = a}

\* An answer of bulk-by-address for a: a failure (fetch throws, or !resp.ok), or
\* the list of candidate users, in any order, possibly incomplete or empty.
Failure == [ok |-> FALSE, users |-> << >>]

Answers(a) ==
    {Failure} \cup
    {[ok |-> TRUE, users |-> q] :
        q \in {q \in UNION {[1..n -> Matching(a)] : n \in 0..2} :
                  \A i, j \in DOMAIN q : i # j => q[i] # q[j]}}

\* No request is made (cache hit, or the row has its profile)
NoAnswer == Failure

\* profile: null
NullProfile == [fid |-> -1, custodyAddress |-> NoAddr, verifications |-> << >>]

\* fetchUsersByAddress(address) when the collaborator answers `answer`:
\* the profile it returns and the two caches after it.
fetchUsersByAddress(address, answer) ==
    LET a == toLowerCase(address) IN
    IF a \in DOMAIN addressProfileCache
    THEN [profile |-> addressProfileCache[a],
          addressCache |-> addressProfileCache, fidCache |-> fidProfileCache]
    ELSE IF ~answer.ok \/ answer.users = << >>
    THEN [profile |-> NullProfile,
          addressCache |-> addressProfileCache, fidCache |-> fidProfileCache]
    ELSE LET normalized == normalizeUserFromNeynar(answer.users[1]) IN
         [profile |-> normalized,
          addressCache |-> [k \in DOMAIN addressProfileCache \cup {a} |->
                              IF k = a THEN normalized ELSE addressProfileCache[k]],
          fidCache |-> [k \in DOMAIN fidProfileCache \cup {normalized.fid} |->
                              IF k = normalized.fid THEN normalized
                              ELSE fidProfileCache[k]]]

\* Index of the row of addr in the Map m (a sequence of rows), 0 if it has none
MapIndex(m, addr) ==
    IF \E i \in DOMAIN m : m[i].address = addr
    THEN CHOOSE i \in DOMAIN m : m[i].address = addr
    ELSE 0

MapCount(m, addr) ==
    IF MapIndex(m, addr) = 0 THEN 0 ELSE m[MapIndex(m, addr)].txCount

\* pollChain, the body of "for (const ev of events)" for one event of `player`
Strike(chainKey, player, answer) ==
    LET addr == toLowerCase(player)
        map == playerStats[chainKey]
        i == MapIndex(map, addr)
        current == IF i # 0 THEN map[i]
                   ELSE [address |-> addr, txCount |-> 0, profile |-> NullProfile]
        fetches == current.profile = NullProfile
        asks == fetches /\ addr \notin DOMAIN addressProfileCache
        f == fetchUsersByAddress(addr, answer)
        p == IF f.profile # NullProfile THEN f.profile ELSE fallbackProfileForAddress(addr)
        row == [current EXCEPT !.txCount = @ + 1,
                               !.profile = IF fetches THEN p ELSE @]
    IN
    /\ strikes < MaxStrikes
    /\ strikes' = strikes + 1
    /\ answer \in (IF asks THEN Answers(addr) ELSE {NoAnswer})
    /\ playerStats' = [playerStats EXCEPT ![chainKey] =
                         IF i # 0 THEN [map EXCEPT ![i] = row] ELSE Append(map, row)]
    /\ addressProfileCache' = IF fetches THEN f.addressCache ELSE addressProfileCache
    /\ fidProfileCache' = IF fetches THEN f.fidCache ELSE fidProfileCache
    /\ lookup' = IF asks
                 THEN [addr |-> addr,
                       candidates |-> IF answer.ok THEN Len(answer.users) ELSE -1,
                       asked |-> lookup.asked + 1]
                 ELSE lookup
    /\ UNCHANGED <<board, pollVars, aggVars, cycVars, reqVars, seed>>

\* An answer of bulk?fids= for fid: a failure, no user, or the user
FidAnswers(fid) ==
    {Failure, [ok |-> TRUE, users |-> << >>]} \cup
    {[ok |-> TRUE, users |-> <<u>>] : u \in {u \in NeynarUsers : u.fid = fid}}

\* addressProfileCache.set(a, profile) for every a of the sequence addrs
SetAll(cache, addrs, profile) ==
    [k \in DOMAIN cache \cup Range(addrs) |->
        IF k \in Range(addrs) THEN profile ELSE cache[k]]

\* fetchUserByFid(fid) when the collaborator answers `answer`: the two caches
\* after it.
fetchUserByFid(fid, answer) ==
    IF fid \in DOMAIN fidProfileCache \/ ~answer.ok \/ answer.users = << >>
    THEN [addressCache |-> addressProfileCache, fidCache |-> fidProfileCache]
    ELSE LET normalized == normalizeUserFromNeynar(answer.users[1])
             custody == IF normalized.custodyAddress # NoAddr
                        THEN <<normalized.custodyAddress>> ELSE << >>
         IN [addressCache |-> SetAll(addressProfileCache,
                                     custody \o normalized.verifications, normalized),
             fidCache |-> [k \in DOMAIN fidProfileCache \cup {fid} |->
                              IF k = fid THEN normalized ELSE fidProfileCache[k]]]

\* GET /api/farcaster/user/:fid
GetFarcasterUser(fid, answer) ==
    LET asks == fid \notin DOMAIN fidProfileCache
        f == fetchUserByFid(fid, answer)
    IN
    /\ asks => lookup.asked < MaxLookups
    /\ answer \in (IF asks THEN FidAnswers(fid) ELSE {NoAnswer})
    /\ addressProfileCache' = f.addressCache
    /\ fidProfileCache' = f.fidCache
    /\ lookup' = IF asks
                 THEN [addr |-> NoAddr,
                       candidates |-> IF answer.ok THEN Len(answer.users) ELSE -1,
                       asked |-> lookup.asked + 1]
                 ELSE lookup
    /\ UNCHANGED <<playerStats, strikes, board, pollVars, aggVars, cycVars, reqVars, seed>>

RECURSIVE sumStrikesForAddresses(_, _)
sumStrikesForAddresses(chainMap, addresses) ==
    IF addresses = << >> THEN 0
    ELSE MapCount(chainMap, toLowerCase(Head(addresses)))
           + sumStrikesForAddresses(chainMap, Tail(addresses))

\* Set.add on a Set kept in insertion order
SetAdd(q, x) == IF x \in Range(q) THEN q ELSE Append(q, x)

RECURSIVE SetAddAll(_, _)
SetAddAll(q, xs) ==
    IF xs = << >> THEN q ELSE SetAddAll(SetAdd(q, Head(xs)), Tail(xs))

\* The first loop of buildLeaderboard: fidGroups (in Map order) and addressOnly
RECURSIVE GroupRows(_, _, _)
GroupRows(rows, fidGroups, addressOnly) ==
    IF rows = << >> THEN [fidGroups |-> fidGroups, addressOnly |-> addressOnly]
    ELSE LET data == Head(rows)
             profile == IF data.profile # NullProfile THEN data.profile
                        ELSE fallbackProfileForAddress(data.address)
             fid == profile.fid
         IN IF fid = NoFid
            THEN GroupRows(Tail(rows), fidGroups,
                           Append(addressOnly,
                                  [fid |-> NoFid, address |-> data.address,
                                   txCount |-> data.txCount]))
            ELSE IF \E g \in DOMAIN fidGroups : fidGroups[g].fid = fid
            THEN LET g == CHOOSE g \in DOMAIN fidGroups : fidGroups[g].fid = fid IN
                 GroupRows(Tail(rows),
                           [fidGroups EXCEPT ![g].addresses = SetAdd(@, data.address)],
                           addressOnly)
            ELSE GroupRows(Tail(rows),
                           Append(fidGroups,
                                  [fid |-> fid, profile |-> profile,
                                   addresses |-> <<data.address>>]),
                           addressOnly)

\* The addresses a fid group is summed over: its rows' addresses, then the
\* profile's custody address and verifications.
GroupAddresses(g) ==
    LET withCustody == IF g.profile.custodyAddress # NoAddr
                       THEN SetAdd(g.addresses, g.profile.custodyAddress)
                       ELSE g.addresses
    IN SetAddAll(withCustody, g.profile.verifications)

MergedRowFirstOnly(chainMap, g) ==
    LET allAddresses == GroupAddresses(g) IN
    [fid |-> g.fid,
     address |-> IF g.profile.custodyAddress # NoAddr THEN g.profile.custodyAddress
                 ELSE allAddresses[1],
     txCount |-> MapCount(chainMap, allAddresses[1])]
MergedRow(chainMap, g) ==
    LET allAddresses == GroupAddresses(g) IN
    [fid |-> g.fid,
     address |-> IF g.profile.custodyAddress # NoAddr THEN g.profile.custodyAddress
                 ELSE allAddresses[1],
     txCount |-> sumStrikesForAddresses(chainMap, allAddresses)]

\* Array.prototype.sort with (a, b) => b.txCount - a.txCount: stable, descending
RECURSIVE SortByTxCount(_)
SortByTxCount(rows) ==
    IF rows = << >> THEN << >>
    ELSE LET sorted == SortByTxCount(SubSeq(rows, 1, Len(rows) - 1))
             x == rows[Len(rows)]
             k == Cardinality({i \in DOMAIN sorted : sorted[i].txCount >= x.txCount})
         IN SubSeq(sorted, 1, k) \o <<x>> \o SubSeq(sorted, k + 1, Len(sorted))

Leaderboard(chainMap) ==
    LET groups == GroupRows(chainMap, << >>, << >>)
        merged == [g \in DOMAIN groups.fidGroups |->
                     MergedRow(chainMap, groups.fidGroups[g])]
        sorted == SortByTxCount(merged \o groups.addressOnly)
        top == SubSeq(sorted, 1, Min(Len(sorted), LeaderboardLimit))
    IN [idx \in DOMAIN top |->
          [fid |-> top[idx].fid, address |-> top[idx].address,
           txCount |-> top[idx].txCount, rank |-> idx]]

buildLeaderboard(chainKey) == Leaderboard(playerStats[chainKey])

\* GET /api/leaderboard/:chain
GetLeaderboard(chainKey) ==
    /\ board' = buildLeaderboard(chainKey)
    /\ UNCHANGED <<playerStats, addressProfileCache, fidProfileCache, strikes,
                   lookup, pollVars, aggVars, cycVars, reqVars, seed>>

NextId ==
    \/ \E chainKey \in Chains, player \in Players,
          answer \in UNION {Answers(a) : a \in Players} :
          Strike(chainKey, player, answer)
    \/ \E chainKey \in Chains : GetLeaderboard(chainKey)
    \/ \E fid \in {u.fid : u \in NeynarUsers},
          answer \in UNION {FidAnswers(u.fid) : u \in NeynarUsers} :
          GetFarcasterUser(fid, answer)

SpecId == Init /\ [][NextId]_vars

-----------------------------------------------------------------------------
(* The aggregated leaderboard of src/server.js (buildAggregatedLeaderboard) *)

TopLimit == 200     \* raw.slice(0, 200)
AggLimit == 25      \* result.slice(0, 25)

normAddr(a) == toLowerCase(a)

\* Total of the counts of a ledger kept as a sequence of rows
RECURSIVE SeqTotal(_)
SeqTotal(rows) ==
    IF rows = << >> THEN 0 ELSE Head(rows).txCount + SeqTotal(Tail(rows))

\* pollChain of server.js, the body of "for (const ev of events)"
AggStrike(chainKey, player) ==
    LET addr == normAddr(player)
        map == statsMap[chainKey]
        i == MapIndex(map, addr)
        current == IF i # 0 THEN map[i] ELSE [address |-> addr, txCount |-> 0]
        row == [current EXCEPT !.txCount = @ + 1]
    IN
    /\ SeqTotal(statsMap["base"]) + SeqTotal(statsMap["hyperevm"]) < MaxStrikes
    /\ statsMap' = [statsMap EXCEPT ![chainKey] =
                      IF i # 0 THEN [map EXCEPT ![i] = row] ELSE Append(map, row)]
    /\ UNCHANGED <<response, pollVars, idVars, cycVars, reqVars, seed>>

\* What neynarBulkUsersByAddress does for the addresses asked: fetch or
\* res.json() throws, or !res.ok (it returns []), or it returns users.
BulkOutcomes(addresses) ==
    {[kind |-> "throws", users |-> << >>], [kind |-> "notOk", users |-> << >>]} \cup
    {[kind |-> "ok", users |-> q] :
        q \in {q \in UNION {[1..n -> UNION {Matching(a) : a \in addresses}] : n \in 0..2} :
                  \A i, j \in DOMAIN q : i # j => q[i] # q[j]}}

\* profileFromNeynarUser(u).fid, NoFid for no user
NoUser == [fid |-> NoFid, custody_address |-> NoAddr, verifications |-> << >>]

RECURSIVE MapVerifications(_, _, _)
MapVerifications(map, u, vs) ==
    IF vs = << >> THEN map
    ELSE LET addr == normAddr(Head(vs))
             keep == addr \in DOMAIN map /\ map[addr].priority >= 2
             map1 == IF keep THEN map
                     ELSE [k \in DOMAIN map \cup {addr} |->
                             IF k = addr THEN [user |-> u, priority |-> 1] ELSE map[k]]
         IN MapVerifications(map1, u, Tail(vs))

RECURSIVE AddUsers(_, _)
AddUsers(map, users) ==
    IF users = << >> THEN map
    ELSE LET u == Head(users)
             custody == normAddr(u.custody_address)
             map1 == [k \in DOMAIN map \cup {custody} |->
                        IF k = custody THEN [user |-> u, priority |-> 2] ELSE map[k]]
         IN AddUsers(MapVerifications(map1, u, u.verifications), Tail(users))

buildAddressToUserMap(users) == AddUsers(<< >>, users)

\* The loop "for (const entry of top)": grouped, in Map insertion order
RECURSIVE GroupTop(_, _, _)
GroupTop(top, addrMap, grouped) ==
    IF top = << >> THEN grouped
    ELSE LET entry == Head(top)
             addr == normAddr(entry.address)
             user == IF addr \in DOMAIN addrMap THEN addrMap[addr].user ELSE NoUser
             fid == user.fid
             same(g) == IF fid # NoFid THEN grouped[g].fid = fid
                        ELSE grouped[g].fid = NoFid /\ grouped[g].address = addr
         IN IF \E g \in DOMAIN grouped : same(g)
            THEN LET g == CHOOSE g \in DOMAIN grouped : same(g) IN
                 GroupTop(Tail(top), addrMap,
                          [grouped EXCEPT ![g].txCount = @ + entry.txCount])
            ELSE GroupTop(Tail(top), addrMap,
                          Append(grouped, [fid |-> fid, address |-> addr,
                                           txCount |-> entry.txCount]))

\* buildAggregatedLeaderboard on the ledger `rows` when the bulk call returns
\* `users`, keeping the topN first addresses and returning `limit` rows
Aggregate(rows, users, topN, limit) ==
    LET raw == SortByTxCount(rows)
        top == SubSeq(raw, 1, Min(Len(raw), topN))
        addrMap == buildAddressToUserMap(users)
        result == SortByTxCount(GroupTop(top, addrMap, << >>))
        shown == SubSeq(result, 1, Min(Len(result), limit))
    IN [idx \in DOMAIN shown |->
          [rank |-> idx, address |-> shown[idx].address, fid |-> shown[idx].fid,
           txCount |-> shown[idx].txCount]]

buildAggregatedLeaderboard(chainKey, users) ==
    Aggregate(statsMap[chainKey], users, TopLimit, AggLimit)

\* GET /api/leaderboard/:chain of server.js: res.json(lb), or res.json([])
\* when buildAggregatedLeaderboard throws
GetAggregated(chainKey, bulk) ==
    /\ bulk \in BulkOutcomes({statsMap[chainKey][i].address : i \in DOMAIN statsMap[chainKey]})
    /\ response' = [chain |-> chainKey, bulk |-> bulk.kind,
                    rows |-> IF bulk.kind = "throws" THEN << >>
                             ELSE buildAggregatedLeaderboard(chainKey, bulk.users)]
    /\ UNCHANGED <<statsMap, pollVars, idVars, cycVars, reqVars, seed>>

NextAgg ==
    \/ \E chainKey \in Chains, player \in Players : AggStrike(chainKey, player)
    \/ \E chainKey \in Chains, bulk \in BulkOutcomes(Players) : GetAggregated(chainKey, bulk)

SpecAgg == Init /\ [][NextAgg]_vars

-----------------------------------------------------------------------------
(* The looping poller of src/server.js (pollChain), one action per stretch
   between two awaits.  The block ranges are scaled as POLL is. *)

BASE_MAX_BLOCK_RANGE == 2       \* 500 in the source
HYPER_MAX_BLOCK_RANGE == 1      \* 300 in the source
StartBack == 1                  \* lastBlockRef.value = head - 50

maxRange(chain) ==
    IF chain = "base" THEN BASE_MAX_BLOCK_RANGE ELSE HYPER_MAX_BLOCK_RANGE

\* The body of "for (const ev of events)" for each event in turn; an event
\* without a player is skipped
RECURSIVE countEvents(_, _)
countEvents(map, events) ==
    IF events = << >> THEN map
    ELSE LET player == IF Head(events) = NoTopic THEN "" ELSE normAddr(Head(events))
             i == MapIndex(map, player)
             current == IF i # 0 THEN map[i] ELSE [address |-> player, txCount |-> 0]
             row == [current EXCEPT !.txCount = @ + 1]
             next == IF player = "" THEN map
                     ELSE IF i # 0 THEN [map EXCEPT ![i] = row]
                     ELSE Append(map, row)
         IN countEvents(next, Tail(events))

FreeCycle(chain) ==
    LET free == {p \in Slots : cycle[chain][p].pc = "idle"}
    IN IF free = {} THEN 0 ELSE CHOOSE p \in free : \A q \in free : p <= q

\* setInterval fires (or startPolling makes its immediate call): pollChain
\* runs up to the await of provider.getBlockNumber()
CycleStart(chain) ==
    LET p == FreeCycle(chain) IN
    /\ cycles < MaxCycles
    /\ p # 0
    /\ cycles' = cycles + 1
    /\ cycle' = [cycle EXCEPT ![chain][p] = [IdleCycle EXCEPT !.pc = "head"]]
    /\ UNCHANGED <<lastBlockRef, failedFrom, pollVars, idVars, aggVars, reqVars, seed>>

\* getBlockNumber or queryFilter throws: the catch logs and pollChain returns
CycleFail(chain, p) ==
    /\ cycle[chain][p].pc \in {"head", "query"}
    /\ cycle' = [cycle EXCEPT ![chain][p] = IdleCycle]
    /\ failedFrom' = IF cycle[chain][p].pc = "query"
                     THEN [failedFrom EXCEPT ![chain] = cycle[chain][p].from]
                     ELSE failedFrom
    /\ UNCHANGED <<lastBlockRef, cycles, pollVars, idVars, aggVars, reqVars, seed>>

\* getBlockNumber returns head: seed if lastBlockRef.value is 0, then enter
\* the while loop up to its first queryFilter, or fall through it
CycleHead(chain, p, head) ==
    LET last == IF lastBlockRef[chain] = 0 THEN Max(0, head - StartBack)
                ELSE lastBlockRef[chain]
        from == last + 1
        to == Min(from + maxRange(chain), head)
    IN
    /\ cycle[chain][p].pc = "head"
    /\ lastBlockRef' = [lastBlockRef EXCEPT ![chain] = last]
    /\ cycle' = [cycle EXCEPT ![chain][p] =
                    IF from <= head
                    THEN [pc |-> "query", head |-> head, from |-> from, to |-> to,
                          chunks |-> 1]
                    ELSE IdleCycle]
    /\ failedFrom' = IF from <= head THEN [failedFrom EXCEPT ![chain] = 0]
                     ELSE failedFrom
    /\ UNCHANGED <<cycles, pollVars, idVars, aggVars, reqVars, seed>>

\* queryFilter("Strike", from, to) returns: count the events, move
\* lastBlockRef to `to`, and go round the while loop
CycleQuery(chain, p) ==
    LET c == cycle[chain][p]
        from == c.to + 1
        to == Min(from + maxRange(chain), c.head)
    IN
    /\ c.pc = "query"
    /\ statsMap' = [statsMap EXCEPT ![chain] = countEvents(@, getLogs(chain, c.from, c.to))]
    /\ lastBlockRef' = [lastBlockRef EXCEPT ![chain] = c.to]
    /\ cycle' = [cycle EXCEPT ![chain][p] =
                    IF from <= c.head
                    THEN [c EXCEPT !.from = from, !.to = to, !.chunks = @ + 1]
                    ELSE IdleCycle]
    /\ UNCHANGED <<response, cycles, failedFrom, pollVars, idVars, reqVars, seed>>

NextCycle ==
    \/ \E chain \in Chains : CycleStart(chain)
    \/ \E chain \in Chains, p \in Slots : CycleFail(chain, p)
    \/ \E chain \in Chains, p \in Slots, head \in 0..MaxHead : CycleHead(chain, p, head)
    \/ \E chain \in Chains, p \in Slots : CycleQuery(chain, p)

SpecCycle == Init /\ [][NextCycle]_vars

-----------------------------------------------------------------------------
(* Steps of pollOnce, as seen between two states *)

\* safeGetBlockNumber or safeGetLogs caught an error (both reset the provider)
Failed(chain) == provider'[chain] # provider[chain]

Ends(chain, p) == tick[chain][p].pc # "idle" /\ tick'[chain][p].pc = "idle"

HeadReturns(chain, p) == tick[chain][p].pc = "head" /\ tick'[chain][p].pc # "head"

IssuesGetLogs(chain, p) == tick[chain][p].pc = "head" /\ tick'[chain][p].pc = "logs"

ScanDone(chain, p) ==
    /\ tick[chain][p].pc \in {"logs", "profile"}
    /\ tick'[chain][p].pc = "idle"
    /\ ~Failed(chain)

NumTopics(logs) == Cardinality({i \in DOMAIN logs : logs[i] # NoTopic})

RECURSIVE SumCounts(_, _)
SumCounts(m, keys) ==
    IF keys = {} THEN 0
    ELSE LET k == CHOOSE k \in keys : TRUE
         IN m[k].txCount + SumCounts(m, keys \ {k})

TotalCount(m) == SumCounts(m, DOMAIN m)

CountOf(m, a) == IF a \in DOMAIN m THEN m[a].txCount ELSE 0

\* Number of Strike logs of player a in the blocks bs of chain
RECURSIVE LogsOf(_, _, _)
LogsOf(chain, a, bs) ==
    IF bs = {} THEN 0
    ELSE LET b == CHOOSE b \in bs : TRUE
             logs == ChainLogs(chain, b)
         IN Cardinality({i \in DOMAIN logs :
                            logs[i] # NoTopic /\ toLowerCase(logs[i]) = a})
              + LogsOf(chain, a, bs \ {b})

-----------------------------------------------------------------------------
(* Claims about the poller *)

\* C1: for each network, cursor[chain].last never decreases, over every
\* sequence of ticks (failures, cooldown skips, heads that go down).
C1_CursorNeverDecreases ==
    [][\A chain \in Chains : cursor'[chain].last >= cursor[chain].last]_vars

\* C2: a tick whose head fetch or log fetch fails has left cursor.last and the
\* ledger of its network as they were (it wrote neither, not even by the
\* clamp); and the cursor is assigned `to` only after getLogs for [from, to]
\* succeeded and every returned log with a player topic has been counted.
C2_FailedTickChangesNothing ==
    [][\A chain \in Chains, p \in Slots :
        LET t == tick[chain][p] IN
        /\ (Ends(chain, p) /\ Failed(chain)) =>
              /\ ~t.clamped
              /\ t.counted = 0
              /\ cursor'[chain].last = cursor[chain].last
              /\ stats'[chain] = stats[chain]
        /\ t.pc = "profile" =>
              t.counted + NumTopics(t.rest) = NumTopics(getLogs(chain, t.from, t.to))
        /\ ScanDone(chain, p) =>
              /\ cursor'[chain].last = t.to
              /\ (t.from .. t.to) \subseteq scanned'[chain]
              /\ TotalCount(stats'[chain]) - TotalCount(stats[chain]) =
                   NumTopics(IF t.pc = "logs" THEN getLogs(chain, t.from, t.to)
                             ELSE t.rest)
    ]_vars

\* C3: for every address, its ledger count never exceeds the number of
\* distinct Strike logs of that address in the blocks scanned so far.
C3_NoDoubleCounting ==
    \A chain \in Chains, a \in Keys :
        CountOf(stats[chain], a) <= LogsOf(chain, a, scanned[chain])

\* C4: no two pollOnce invocations of one network are in progress together.
C4_SingleFlight ==
    \A chain \in Chains :
        Cardinality({p \in Slots : tick[chain][p].pc # "idle"}) <= 1

\* C5: after a rate-limited log fetch at time t, no getLogs request of that
\* network is issued before cooldownUntil = t + backoff.
C5_NoScanDuringCooldown ==
    [][\A chain \in Chains, p \in Slots :
        IssuesGetLogs(chain, p) => now >= cursor[chain].cooldownUntil]_vars

C9_ChunkRange ==
    [][\A chain \in Chains, p \in Slots :
        IssuesGetLogs(chain, p) =>
            LET t == tick'[chain][p] IN
            /\ t.from = cursor'[chain].last + 1
            /\ t.to = Min(t.head, t.from + POLL[chain].chunk - 1)
            /\ t.to - t.from + 1 <= POLL[chain].chunk
    ]_vars

\* C10: the tick whose head fetch succeeds while last = 0 sets
\* last = max(0, head - lookback), issues no getLogs and changes no ledger
\* entry; a failed head fetch leaves last = 0.
C10_SeedingTick ==
    [][\A chain \in Chains, p \in Slots :
        (HeadReturns(chain, p) /\ cursor[chain].last = 0) =>
            IF Failed(chain)
            THEN cursor'[chain].last = 0
            ELSE /\ cursor'[chain].last
                      = Max(0, cursor'[chain].head - POLL[chain].lookback)
                 /\ cursor'[chain].last >= 0
                 /\ tick'[chain][p].pc = "idle"
                 /\ tick'[chain][p].nreq = 0
                 /\ stats' = stats
                 /\ scanned' = scanned
    ]_vars

\* The first tick has seeded a cursor above 0 and nothing was scanned or counted.
C10_Witness ==
    \E chain \in Chains :
        /\ polls = 1
        /\ cursor[chain].last = cursor[chain].head - POLL[chain].lookback
        /\ cursor[chain].last > 0
        /\ stats[chain] = << >>
        /\ scanned[chain] = {}
        /\ \A p \in Slots : tick[chain][p].pc = "idle"

\* safeGetBlockNumber or safeGetLogs caught an error in this step
Erred(chain) == errors'[chain] # errors[chain]

\* A remote call (getBlockNumber or getLogs) is issued in this step
IssuesCall(chain, p) ==
    /\ tick'[chain][p].pc \in {"head", "logs"}
    /\ tick'[chain][p].pc # tick[chain][p].pc

RateLimitTexts ==
    {failedText(call, msg) :
        call \in {"getBlockNumber", "getLogs"},
        msg \in {m \in Msgs : isRateLimitError(m)}}

\* C11: every failed head fetch and every failed log fetch sets ok to false,
\* records a non-empty lastError and replaces the provider of its network, so
\* that the provider the failed call ran on is never the current one again
\* and every later remote call is made on the current (new) provider.
C11_FailureRecordedAndProviderReset ==
    [][\A chain \in Chains :
        /\ Erred(chain) =>
              /\ cursor'[chain].ok = FALSE
              /\ cursor'[chain].lastError # ""
              /\ provider'[chain] # provider[chain]
              /\ \A p \in Slots :
                    Ends(chain, p) => provider'[chain] > tick[chain][p].prov
        /\ \A p \in Slots :
              IssuesCall(chain, p) =>
                  /\ tick'[chain][p].prov = provider'[chain]
                  /\ tick'[chain][p].prov >= errors'[chain]
    ]_vars

\* After a failure a remote call is in flight on the replacement provider.
C11_Witness ==
    \E chain \in Chains, p \in Slots :
        /\ errors[chain] >= 1
        /\ ~cursor[chain].ok
        /\ tick[chain][p].pc \in {"head", "logs"}
        /\ tick[chain][p].prov = provider[chain]
        /\ tick[chain][p].prov >= 1

\* C12: whenever a remote call fails with a rate-limit error, head fetch or
\* log fetch, the network gets cooldownUntil = now + backoff, and the backoff
\* of hyperevm is strictly longer than that of base.
C12_RateLimitEntersCooldown ==
    [][\A chain \in Chains :
        /\ backoffMs("hyperevm") > backoffMs("base")
        /\ (Erred(chain) /\ cursor'[chain].lastError \in RateLimitTexts) =>
              cursor'[chain].cooldownUntil = now + backoffMs(chain)
    ]_vars

\* C13: every getLogs request has 1 <= from <= to <= head of its tick; a
\* cursor above the fetched head is clamped to max(0, head - 1); and when
\* from > head the tick ends with no request and no error recorded.
C13_ValidRange ==
    [][\A chain \in Chains, p \in Slots :
        LET c == cursor[chain]
            h == cursor'[chain].head
            t == tick'[chain][p]
        IN
        /\ IssuesGetLogs(chain, p) =>
              /\ 1 <= t.from /\ t.from <= t.to /\ t.to <= t.head
              /\ t.head = h
              /\ t.nreq = 1
        /\ (HeadReturns(chain, p) /\ ~Erred(chain) /\ c.last # 0) =>
              /\ cursor'[chain].last = (IF c.last > h THEN Max(0, h - 1) ELSE c.last)
              /\ cursor'[chain].last >= 0
              /\ IF cursor'[chain].last + 1 > h
                 THEN /\ t.pc = "idle"
                      /\ t.nreq = 0
                      /\ cursor'[chain].ok = c.ok
                      /\ cursor'[chain].lastError = c.lastError
                      /\ cursor'[chain].cooldownUntil = c.cooldownUntil
                      /\ provider' = provider
                      /\ stats' = stats
                 ELSE IssuesGetLogs(chain, p)
    ]_vars

\* A request was issued right after the cursor had been clamped to head - 1.
C13_Witness ==
    \E chain \in Chains, p \in Slots :
        /\ tick[chain][p].pc = "logs"
        /\ tick[chain][p].clamped
        /\ tick[chain][p].from = tick[chain][p].head
        /\ cursor[chain].last = tick[chain][p].head - 1

\* C14: a step of one network's tick (success, failure or rate limit) leaves
\* the other network's cursor, provider, ledger and ticks unchanged; no step
\* changes the state of both networks.
C14_NetworksIndependent ==
    [][\A c, d \in Chains :
        (c # d /\ (tick'[c] # tick[c] \/ cursor'[c] # cursor[c]
                   \/ provider'[c] # provider[c] \/ stats'[c] # stats[c])) =>
            /\ cursor'[d] = cursor[d]
            /\ provider'[d] = provider[d]
            /\ stats'[d] = stats[d]
            /\ tick'[d] = tick[d]
            /\ scanned'[d] = scanned[d]
            /\ errors'[d] = errors[d]
    ]_vars

\* base has failed with a rate limit and cools down while hyperevm, untouched
\* by it, has seeded its cursor.
C14_Witness ==
    /\ errors["base"] >= 1
    /\ cursor["base"].cooldownUntil > 0
    /\ ~cursor["base"].ok
    /\ cursor["hyperevm"].last > 0
    /\ cursor["hyperevm"].ok
    /\ cursor["hyperevm"].cooldownUntil = 0
    /\ provider["hyperevm"] = 0

\* The blocks whose scan is complete: covered by a successful getLogs of an
\* invocation that is no longer working through the logs of that range.
Passed(chain) ==
    {b \in scanned[chain] :
        ~\E p \in Slots :
            /\ tick[chain][p].pc = "profile"
            /\ b \in tick[chain][p].from .. tick[chain][p].to}

\* C19: within one network no getLogs request includes a block whose scan
\* was completed before (the requested ranges never overlap earlier ones).
C19_NoRescan ==
    [][\A chain \in Chains, p \in Slots :
        IssuesGetLogs(chain, p) =>
            \A b \in tick'[chain][p].from .. tick'[chain][p].to :
                b \notin Passed(chain)
    ]_vars

\* The number of logs a step of invocation p counts (between two awaits)
CountedInStep(chain, p) ==
    LET t == tick[chain][p]
        logs == IF t.pc = "logs" THEN getLogs(chain, t.from, t.to) ELSE t.rest
        before == IF t.pc = "logs" THEN 0 ELSE t.counted
    IN IF tick'[chain][p].pc = "profile" THEN tick'[chain][p].counted - before
       ELSE NumTopics(logs)

\* C24: a ledger entry is created with count 1 under the lowercase address,
\* grows by one per counted log, and is never deleted or decreased; every
\* count is at least 1.
C24_LedgerGrowsByOne ==
    [][\A chain \in Chains :
        /\ DOMAIN stats[chain] \subseteq DOMAIN stats'[chain]
        /\ \A a \in DOMAIN stats'[chain] :
              /\ a \in Keys
              /\ toLowerCase(a) = a
              /\ stats'[chain][a].txCount >= 1
              /\ a \in DOMAIN stats[chain] =>
                    stats'[chain][a].txCount >= stats[chain][a].txCount
              /\ a \notin DOMAIN stats[chain] => stats'[chain][a].txCount = 1
        /\ \A p \in Slots :
              (tick'[chain][p] # tick[chain][p]
                 /\ tick[chain][p].pc \in {"logs", "profile"} /\ ~Erred(chain)) =>
                  TotalCount(stats'[chain]) - TotalCount(stats[chain])
                      = CountedInStep(chain, p)
        /\ (tick'[chain] = tick[chain] \/ Erred(chain)) => stats'[chain] = stats[chain]
    ]_vars

\* The player logged as 0xAA and as 0xaa has one entry, counted twice.
C24_Witness ==
    \E chain \in Chains :
        /\ DOMAIN stats[chain] = {"0xaa", "0xbb"}
        /\ stats[chain]["0xaa"].txCount = 2
        /\ stats[chain]["0xbb"].txCount = 1

\* C25: when a scan of [from, to] completes, last = to, ok = true and
\* lastError is empty; and a network whose cursor has caught up with the head
\* it scanned to issues a scan in the first later tick whose fetched head is
\* above the cursor.
C25_AfterSuccessfulScan ==
    [][\A chain \in Chains, p \in Slots :
        /\ ScanDone(chain, p) =>
              /\ cursor'[chain].last = tick[chain][p].to
              /\ cursor'[chain].ok
              /\ cursor'[chain].lastError = ""
        /\ (HeadReturns(chain, p) /\ ~Erred(chain)
              /\ cursor[chain].last = cursor[chain].head
              /\ cursor[chain].last \in Passed(chain)
              /\ cursor'[chain].head > cursor[chain].last) =>
                  IssuesGetLogs(chain, p)
    ]_vars

\* Invocation p started after the failure that set the cooldown (its call is
\* on the provider installed by the latest failure), hence, as no tick gets
\* past the cooldown check earlier, at or after cooldownUntil.
StartedAfterCooldown(chain, p) ==
    /\ cursor[chain].cooldownUntil # 0
    /\ now >= cursor[chain].cooldownUntil
    /\ tick[chain][p].pc = "head"
    /\ tick[chain][p].prov = provider[chain]

\* C26: a tick that starts before cooldownUntil makes no remote call and
\* changes no cursor field and no ledger entry; a tick that starts at or after
\* cooldownUntil fetches the head, and scans if the cursor is behind it.
C26_CooldownTemporaryAndTotal ==
    [][\A chain \in Chains :
        LET c == cursor[chain]
            cooled == c.cooldownUntil # 0
        IN
        /\ (polls' # polls /\ tick'[chain] = tick[chain] /\ tick' = tick) =>
              /\ cursor' = cursor /\ stats' = stats /\ provider' = provider
        /\ \A p \in Slots :
              /\ (tick[chain][p].pc = "idle" /\ tick'[chain][p].pc # "idle") =>
                    /\ tick'[chain][p].pc = "head"
                    /\ ~(cooled /\ now < c.cooldownUntil)
              /\ (polls' # polls /\ cooled /\ now < c.cooldownUntil) =>
                    tick'[chain] = tick[chain]
              /\ (HeadReturns(chain, p) /\ ~Erred(chain) /\ StartedAfterCooldown(chain, p)
                    /\ c.last < cursor'[chain].head) =>
                       IssuesGetLogs(chain, p)
    ]_vars

\* C29: the cursor is seeded once: after a head fetch has succeeded no tick
\* is a seeding tick; it scans when the (clamped) cursor is behind the head
\* and otherwise leaves the cursor where the clamp put it.
C29_SeededOnce ==
    [][\A chain \in Chains, p \in Slots :
        LET c == cursor[chain]
            h == cursor'[chain].head
            last1 == IF c.last > h THEN Max(0, h - 1) ELSE c.last
        IN (HeadReturns(chain, p) /\ ~Erred(chain)
              /\ (c.head # 0 \/ scanned[chain] # {})) =>
                 /\ cursor'[chain].last = last1
                 /\ IF last1 + 1 <= h THEN IssuesGetLogs(chain, p)
                    ELSE tick'[chain][p].pc = "idle"
    ]_vars

\* The block the cursor is seeded at when the head is H
SeedBlock(chain, H) == SeedCursor(H, POLL[chain].lookback)

\* C30: if every head fetch and log fetch of a network succeeds, there is no
\* rate limiting and the head stays at a value H >= 1, then with timers that
\* keep firing the cursor eventually equals H and every Strike log in the
\* blocks after the seed block up to H has been counted.
C30_EventuallyCaughtUp ==
    \A chain \in Chains : \A H \in 1..MaxHead :
        <>[](cursor[chain].head = H) =>
            <>(/\ cursor[chain].last = H
               /\ \A a \in Keys :
                     CountOf(stats[chain], a) >=
                         LogsOf(chain, a, (SeedBlock(chain, H) + 1)..H))

\* C23: leaderboard, profile and status requests are pure reads of polling
\* state: however requests interleave with the steps of poll ticks, a step
\* that sends a response changes no field of any cursor and no count (and no
\* row) of any ledger.
C23_RequestsArePureReads ==
    [][reply' # reply =>
          /\ cursor' = cursor
          /\ \A chain \in Chains :
                /\ DOMAIN stats'[chain] = DOMAIN stats[chain]
                /\ \A a \in DOMAIN stats[chain] :
                      stats'[chain][a].txCount = stats[chain][a].txCount
    ]_vars

\* A profile with counts was served while a tick was waiting for its logs and
\* that network had been scanned before
C23_Witness ==
    /\ reply.route = "profile"
    /\ reply.body[1] >= 1
    /\ \E chain \in Chains, p \in Slots :
          tick[chain][p].pc = "logs" /\ scanned[chain] # {}

\* Every Strike log of chain in a block above the first seed and up to the
\* cursor is in the ledger
NoneMissed(chain) ==
    seed[chain] # NoSeed =>
        \A a \in Keys :
            CountOf(stats[chain], a) >=
                LogsOf(chain, a, {b \in Blocks : seed[chain] < b /\ b <= cursor[chain].last})

\* C31: no log is missed: at the end of every tick, every Strike log with a
\* player topic in a block b with seed < b <= cursor.last has been counted in
\* the ledger at least once, whatever the ticks were (failures, clamps,
\* overlapping ticks), the chain history being fixed.
C31_NoLogMissed ==
    [][\A chain \in Chains, p \in Slots : Ends(chain, p) => NoneMissed(chain)']_vars

\* C32: at the end of every pollOnce tick the stored cursor has last <= head
\* (the last observed head), whatever the ticks before it were: failed
\* fetches, heads that go down, overlapping ticks of the same network.
C32_LastAtMostHead ==
    [][\A chain \in Chains, p \in Slots :
          Ends(chain, p) => cursor'[chain].last <= cursor'[chain].head
    ]_vars

\* C33: the reported health reflects the latest remote call: when a tick ends
\* having made all of its remote calls successfully, ok is true and lastError
\* is empty, also when the tick only fetched the head (it seeded, or found no
\* block above the cursor).  Stated for a tick during whose last call no
\* other call of its network failed (the provider is the one it called).
C33_HealthReflectsLatestCall ==
    [][\A chain \in Chains, p \in Slots :
          (Ends(chain, p) /\ ~Erred(chain)
              /\ tick[chain][p].prov = provider[chain]) =>
              /\ cursor'[chain].ok
              /\ cursor'[chain].lastError = ""
    ]_vars

-----------------------------------------------------------------------------
(* Claims about the identity resolver and the leaderboard *)

Fids(chainMap) == {chainMap[i].profile.fid : i \in DOMAIN chainMap} \ {NoFid, -1}

\* The addresses linked to fid: those of the ledger rows resolved to it, and
\* the custody address and verifications of the records those rows hold.
Linked(chainMap, fid) ==
    LET rows == {i \in DOMAIN chainMap : chainMap[i].profile.fid = fid} IN
    {chainMap[i].address : i \in rows}
      \cup ({chainMap[i].profile.custodyAddress : i \in rows} \ {NoAddr})
      \cup UNION {Range(chainMap[i].profile.verifications) : i \in rows}

RECURSIVE SumOver(_, _)
SumOver(chainMap, addrs) ==
    IF addrs = {} THEN 0
    ELSE LET a == CHOOSE a \in addrs : TRUE
         IN MapCount(chainMap, a) + SumOver(chainMap, addrs \ {a})

\* The ledger of the spec's scenario: 0x01 and 0x02 resolved to fid 42
ExampleProfile42 ==
    normalizeUserFromNeynar(CHOOSE u \in NeynarUsers : u.fid = 42)

ExampleLedger ==
    << [address |-> "0x01", txCount |-> 2, profile |-> ExampleProfile42],
       [address |-> "0x02", txCount |-> 3, profile |-> ExampleProfile42],
       [address |-> "0x03", txCount |-> 10,
        profile |-> fallbackProfileForAddress("0x03")] >>

\* C6: if the collaborator names two or more candidates for an address (or
\* none), the address stays unresolved: no identity for it in a cache or in
\* a ledger row, and a standalone leaderboard row of its own.
C6_AmbiguousStaysUnresolved ==
    (lookup.addr # NoAddr /\ lookup.candidates \in {0} \cup (2..Cardinality(NeynarUsers))) =>
        /\ lookup.addr \notin DOMAIN addressProfileCache
        /\ \A chainKey \in Chains :
              LET chainMap == playerStats[chainKey]
                  lb == buildLeaderboard(chainKey)
              IN \A i \in DOMAIN chainMap :
                    chainMap[i].address = lookup.addr =>
                        /\ chainMap[i].profile.fid = NoFid
                        /\ \E r \in DOMAIN lb :
                              /\ lb[r].fid = NoFid
                              /\ lb[r].address = lookup.addr
                              /\ lb[r].txCount = chainMap[i].txCount

C16_DenseRank ==
    /\ board # << >> => board[1].rank = 1
    /\ \A i \in DOMAIN board :
          (i + 1) \in DOMAIN board =>
              /\ board[i].txCount >= board[i + 1].txCount
              /\ board[i + 1].rank =
                    (IF board[i + 1].txCount = board[i].txCount
                     THEN board[i].rank ELSE board[i].rank + 1)

\* The same ledger rows, in every order in which the Map could hold them
Perms(rows) ==
    {q \in [DOMAIN rows -> Range(rows)] : \A i, j \in DOMAIN q : i # j => q[i] # q[j]}

\* The identity key of each leaderboard row, in row order
RowKeys(lb) ==
    [r \in DOMAIN lb |->
        IF lb[r].fid # NoFid THEN [fid |-> lb[r].fid, address |-> NoAddr]
        ELSE [fid |-> NoFid, address |-> lb[r].address]]

\* C17: the row order depends on the ledger contents and identities only:
\* the same (address, count, identity) rows, inserted in any other order by a
\* different arrival order of the events, give the same order of rows.
C17_OrderIndependentOfArrival ==
    \A chainKey \in Chains :
        \A q \in Perms(playerStats[chainKey]) :
            RowKeys(Leaderboard(q)) = RowKeys(buildLeaderboard(chainKey))

\* C18: a failed or ambiguous lookup is not remembered as a negative result:
\* a later event of an address whose ledger row is unresolved asks the
\* collaborator about that address again, and the row becomes resolved when
\* exactly one identity is returned.
C18_FailedLookupRetried ==
    [][\A chainKey \in Chains :
        \A i \in DOMAIN playerStats[chainKey] :
            LET row == playerStats[chainKey][i]
                after == playerStats'[chainKey][i]
            IN (after.txCount > row.txCount /\ row.profile.fid = NoFid) =>
                  /\ lookup'.asked = lookup.asked + 1
                  /\ lookup'.addr = row.address
                  /\ lookup'.candidates = 1 => after.profile.fid # NoFid
    ]_vars

\* The ledger addresses that the address cache links to fid
CacheLinked(chainMap, fid) ==
    {i \in DOMAIN chainMap :
        /\ chainMap[i].address \in DOMAIN addressProfileCache
        /\ addressProfileCache[chainMap[i].address].fid = fid}

\* C20: when two addresses with separate ledger rows are both linked to an
\* identity, however and whenever the link was learned, the leaderboard has
\* one row for the identity holding at least the sum of both counts, and no
\* standalone row for either address.
C20_LateLinksMerge ==
    \A chainKey \in Chains, fid \in DOMAIN fidProfileCache :
        LET chainMap == playerStats[chainKey]
            lb == buildLeaderboard(chainKey)
        IN \A i, j \in CacheLinked(chainMap, fid) :
              i # j =>
                 /\ Cardinality({r \in DOMAIN lb : lb[r].fid = fid}) = 1
                 /\ \A r \in DOMAIN lb :
                       /\ lb[r].fid = fid =>
                             lb[r].txCount >= chainMap[i].txCount + chainMap[j].txCount
                       /\ lb[r].fid = NoFid =>
                             lb[r].address \notin {chainMap[i].address, chainMap[j].address}

\* The addresses of an identity record: custody address and verifications
RecordAddresses(rec) ==
    (IF rec.custodyAddress # NoAddr THEN {rec.custodyAddress} ELSE {})
      \cup Range(rec.verifications)

\* C21: a lookup by fid is authoritative: whenever fetchUserByFid(fid)
\* returns a record, from the cache or from the collaborator, every address
\* of that record maps to that record in the address cache after the call,
\* also when the fid was first cached through an address lookup.
C21_FidLookupAuthoritative ==
    \A fid \in {u.fid : u \in NeynarUsers} :
        \A answer \in (IF fid \in DOMAIN fidProfileCache THEN {NoAnswer}
                       ELSE FidAnswers(fid)) :
            LET f == fetchUserByFid(fid, answer) IN
            fid \in DOMAIN f.fidCache =>
                \A a \in RecordAddresses(f.fidCache[fid]) :
                    /\ a \in DOMAIN f.addressCache
                    /\ f.addressCache[a] = f.fidCache[fid]

\* C28: every ledger address contributes its count to exactly one
\* leaderboard row: with no row cut off by the limit, the sum of the row
\* totals equals the sum of the ledger counts.
C28_RowsPartitionLedger ==
    \A chainKey \in Chains :
        LET chainMap == playerStats[chainKey]
            lb == buildLeaderboard(chainKey)
        IN Len(chainMap) <= LeaderboardLimit =>
              SeqTotal(lb) = SeqTotal(chainMap)

-----------------------------------------------------------------------------
(* Claims about the aggregated leaderboard of server.js *)

\* C15: when the call to the identity collaborator fails (it throws, or the
\* response is not OK), a leaderboard request for a network with a non-empty
\* ledger returns one address-only row per ledger address with its count.
C15_AddressRowsWhenResolverDown ==
    [][\A chainKey \in Chains :
        LET map == statsMap[chainKey] IN
        (response' # response /\ response'.chain = chainKey
           /\ response'.bulk \in {"throws", "notOk"} /\ map # << >>) =>
            /\ Len(response'.rows) = Len(map)
            /\ \A i \in DOMAIN map :
                  \E r \in DOMAIN response'.rows :
                      /\ response'.rows[r].fid = NoFid
                      /\ response'.rows[r].address = map[i].address
                      /\ response'.rows[r].txCount = map[i].txCount
    ]_vars

\* The cuts of the per-address list that come before merging
\* (raw.slice(0, topN); the source has topN = TopLimit)
TopCuts == {1, 2, TopLimit}

\* The ledger rows that the answer `users` maps to fid
RowsOfFid(rows, users, fid) ==
    LET addrMap == buildAddressToUserMap(users) IN
    {i \in DOMAIN rows :
        /\ normAddr(rows[i].address) \in DOMAIN addrMap
        /\ addrMap[normAddr(rows[i].address)].user.fid = fid}

RECURSIVE SumRows(_, _)
SumRows(rows, idxs) ==
    IF idxs = {} THEN 0
    ELSE LET i == CHOOSE i \in idxs : TRUE
         IN rows[i].txCount + SumRows(rows, idxs \ {i})

\* C22: truncation comes after merging: for every cut of the per-address
\* list, the total shown for an identity is the sum over all of its ledger
\* addresses, wherever they stand in the per-address ordering.
C22_TruncationAfterMerge ==
    \A chainKey \in Chains, topN \in TopCuts :
        LET rows == statsMap[chainKey] IN
        \A bulk \in BulkOutcomes({rows[i].address : i \in DOMAIN rows}) :
            LET lb == Aggregate(rows, bulk.users, topN, AggLimit) IN
            \A r \in DOMAIN lb :
                lb[r].fid # NoFid =>
                    lb[r].txCount = SumRows(rows, RowsOfFid(rows, bulk.users, lb[r].fid))

\* C27: a pollChain cycle processes at most one bounded chunk: within one
\* invocation it issues at most one queryFilter, and never goes on to the
\* next chunk up to the head.
C27_OneChunkPerCycle ==
    \A chain \in Chains, p \in Slots : cycle[chain][p].chunks <= 1

\* C34: in the looping poller, when the query of a chunk fails the cycle stops
\* with the cursor at the end of the last chunk whose events were all counted
\* (the block before the failed chunk); the next cycle that scans starts at
\* the failed chunk; and no query result that is counted covers blocks at or
\* below the cursor, so no earlier chunk is counted again.
C34_FailedChunkKeepsProgress ==
    [][\A chain \in Chains, p \in Slots :
          LET c == cycle[chain][p] IN
          /\ (c.pc = "query" /\ CycleFail(chain, p)) =>
                lastBlockRef'[chain] = c.from - 1
          /\ (failedFrom[chain] # 0 /\ c.pc = "head"
                  /\ cycle'[chain][p].pc = "query") =>
                cycle'[chain][p].from = failedFrom[chain]
          /\ CycleQuery(chain, p) => c.from > lastBlockRef[chain]
    ]_vars

=============================================================================
